---- MODULE Spec2Model ----
(***************************************************************************)
(* A model of averykhoo/rc4: the class API of src/rc4_class.py (RC4, RC4A,  *)
(* VMPC, RCPlus, RCDrop) and the function API of                            *)
(* src/rc4_single_function.py (rc4).                                        *)
(*                                                                         *)
(* Python lists and byte buffers are objects on a heap and are reached      *)
(* through references, so that sharing and in-place mutation are visible.   *)
(* A behaviour is one client program: it either uses the class API with two *)
(* instance variables X and Y, or calls rc4() a few times.  An action binds *)
(* the result of the call it makes once (\E r \in {call}) and assigns from   *)
(* it.                                                                      *)
(***************************************************************************)
EXTENDS Integers, Sequences, FiniteSets, TLC

VARIABLES
  api,      \* which of the two source files the client program imports
  lists,    \* heap of Python lists (the S-boxes): reference -> [0..255 -> int]
  obj,      \* the client's variables X, Y: the instance each one holds
  ctor,     \* the constructor call made for X, Y (class, key, skip argument)
  exc,      \* the exception with which that constructor call ended, or "none"
  hist,     \* the calls made on X, Y after construction, with their results
  kcalls,   \* the direct calls of the static method RC4.KSA, with their results
  bufs,     \* heap of str / bytes / bytearray objects handed to and from rc4()
  fcalls    \* the calls of rc4() made so far, with their results

vars == <<api, lists, obj, ctor, exc, hist, kcalls, bufs, fcalls>>

(***************************************************************************)
(* Bounds of the exploration.                                               *)
(***************************************************************************)
MaxCalls == 2      \* calls made on one instance after its construction
MaxBytes == 3      \* bytes drawn from one instance; length of an input of rc4()
MaxFnCalls == 2    \* calls of rc4() in one behaviour

(***************************************************************************)
(* Integer operations of the source.                                        *)
(***************************************************************************)
\* x & 0xFF on a non-negative int
BitAnd_FF(x) == x % 256

\* x & 0xFFFF on a non-negative int
BitAnd_FFFF(x) == x % 65536

\* a ^ b on non-negative ints, bit by bit
RECURSIVE BitXor(_, _)
BitXor(a, b) ==
  IF a = 0 THEN b
  ELSE IF b = 0 THEN a
  ELSE (((a % 2) + (b % 2)) % 2) + 2 * BitXor(a \div 2, b \div 2)

\* x << n and x >> n
RECURSIVE Pow2(_)
Pow2(n) == IF n = 0 THEN 1 ELSE 2 * Pow2(n - 1)
ShiftLeft(x, n) == x * Pow2(n)
ShiftRight(x, n) == x \div Pow2(n)

(***************************************************************************)
(* Python values.  A str is its sequence of code points, a bytes or         *)
(* bytearray its sequence of ints in 0..255.                                *)
(***************************************************************************)
PyStr(cps) == [type |-> "str", data |-> cps]
PyBytes(bs) == [type |-> "bytes", data |-> bs]
PyByteArray(bs) == [type |-> "bytearray", data |-> bs]
PyList(xs) == [type |-> "list", data |-> xs]
PyNone == [type |-> "NoneType", data |-> <<>>]

\* ord(char): a character is represented by its code point
Ord(char) == char

\* list(range(256))
Range256 == [n \in 0..255 |-> n]

\* a swap that reads x[a] after it has been overwritten: x[a] = x[b]; x[b] = x[a]
SwapItems_naive(h, ref, a, b) ==
  [h EXCEPT ![ref] = [@ EXCEPT ![a] = h[ref][b], ![b] = h[ref][b]]]

\* x[a], x[b] = x[b], x[a] on the list at reference ref: the right-hand side is
\* read first, then x[a] and x[b] are assigned in this order
SwapItems(h, ref, a, b) ==
  [h EXCEPT ![ref] = [@ EXCEPT ![a] = h[ref][b], ![b] = h[ref][a]]]

\* x[a] = v on the list at reference ref
SetItem(h, ref, a, v) == [h EXCEPT ![ref] = [@ EXCEPT ![a] = v]]

(***************************************************************************)
(* RC4.KSA (static method).  The list s is allocated at a fresh reference   *)
(* and filled in place; the reference is returned.  With an empty key the   *)
(* first i % key_length raises ZeroDivisionError and nothing is returned.   *)
(***************************************************************************)
\* a key conversion that pads an empty key with one zero byte
KSAKey_padded(key) ==
  IF Len(key.data) = 0 THEN <<0>>
  ELSE IF key.type = "str" THEN [n \in 1..Len(key.data) |-> Ord(key.data[n])]
  ELSE key.data

\* [ord(char) for char in key] if key is a str, else key itself
KSAKey(key) ==
  IF key.type = "str" THEN [n \in 1..Len(key.data) |-> Ord(key.data[n])]
  ELSE key.data

\* a loop body that reads the key one position too far
KSAStep_shifted(f, key, i) ==
  LET j == BitAnd_FF(f.j + f.h[f.ref][i] + key[((i + 1) % Len(key)) + 1])
  IN [h |-> SwapItems(f.h, f.ref, i, j), ref |-> f.ref, j |-> j]

\* one pass of the loop body, lines 44-45; f = [h, ref, j]
KSAStep(f, key, i) ==
  LET j == BitAnd_FF(f.j + f.h[f.ref][i] + key[(i % Len(key)) + 1])
  IN [h |-> SwapItems(f.h, f.ref, i, j), ref |-> f.ref, j |-> j]

\* for i in range(lo, hi): the iterations run in order; the range is split in
\* halves only to bound the depth of evaluation (the test on left.j always
\* holds and fixes the order of evaluation)
RECURSIVE KSALoop(_, _, _, _)
KSALoop(f, key, lo, hi) ==
  IF lo >= hi THEN f
  ELSE IF hi = lo + 1 THEN KSAStep(f, key, lo)
  ELSE LET mid == (lo + hi) \div 2
           left == KSALoop(f, key, lo, mid)
       IN IF left.j >= 0 THEN KSALoop(left, key, mid, hi) ELSE left

\* a KSA that returns the list it built first instead of a new one
KSA_cached(h, key) ==
  IF Len(KSAKey(key)) = 0
  THEN [h |-> h, ref |-> 0, exc |-> "ZeroDivisionError"]
  ELSE IF Len(h) > 0 THEN [h |-> h, ref |-> 1, exc |-> "none"]
  ELSE LET k == KSAKey(key)
           f == KSALoop([h |-> Append(h, Range256), ref |-> Len(h) + 1, j |-> 0], k, 0, 256)
       IN [h |-> f.h, ref |-> f.ref, exc |-> "none"]

KSA(h, key) ==
  LET k == KSAKey(key)
  IN IF Len(k) = 0
     THEN [h |-> h, ref |-> 0, exc |-> "ZeroDivisionError"]
     ELSE LET f == KSALoop([h |-> Append(h, Range256), ref |-> Len(h) + 1, j |-> 0], k, 0, 256)
          IN [h |-> f.h, ref |-> f.ref, exc |-> "none"]

(***************************************************************************)
(* Instances.  An instance holds its counters and the references of its     *)
(* lists; S2 = 0 stands for "no such attribute".                            *)
(***************************************************************************)
Classes == {"RC4", "RC4A", "VMPC", "RCPlus", "RCDrop"}

NoObj == [cls |-> "none", i |-> 0, j |-> 0, s |-> 0, S2 |-> 0, j2 |-> 0, first_op |-> TRUE]

\* one pass of the loop body of RC4.PRGA, lines 70-74; f = [h, o, ks]
RC4Step(f) ==
  LET o == f.o
      i == BitAnd_FF(o.i + 1)
      j == BitAnd_FF(o.j + f.h[o.s][i])
      h1 == SwapItems(f.h, o.s, i, j)
      k == h1[o.s][BitAnd_FF(h1[o.s][i] + h1[o.s][j])]
  IN [h |-> h1, o |-> [o EXCEPT !.i = i, !.j = j], ks |-> Append(f.ks, k)]

\* an RC4A step that advances i in its second phase as well
RC4AStep_advance(f) ==
  LET o == f.o
  IN IF o.first_op
     THEN LET i == BitAnd_FF(o.i + 1)
              j == BitAnd_FF(o.j + f.h[o.s][i])
              h1 == SwapItems(f.h, o.s, i, j)
              k == h1[o.S2][BitAnd_FF(h1[o.s][i] + h1[o.s][j])]
          IN [h |-> h1,
              o |-> [o EXCEPT !.first_op = FALSE, !.i = i, !.j = j],
              ks |-> Append(f.ks, k)]
     ELSE LET i == BitAnd_FF(o.i + 1)
              j2 == BitAnd_FF(o.j2 + f.h[o.S2][i])
              h1 == SwapItems(f.h, o.S2, i, j2)
              k == h1[o.s][BitAnd_FF(h1[o.S2][i] + h1[o.S2][j2])]
          IN [h |-> h1,
              o |-> [o EXCEPT !.first_op = TRUE, !.i = i, !.j2 = j2],
              ks |-> Append(f.ks, k)]

\* an RC4A step that never leaves its first phase
RC4AStep_onePhase(f) ==
  LET o == f.o
      i == BitAnd_FF(o.i + 1)
      j == BitAnd_FF(o.j + f.h[o.s][i])
      h1 == SwapItems(f.h, o.s, i, j)
      k == h1[o.S2][BitAnd_FF(h1[o.s][i] + h1[o.s][j])]
  IN [h |-> h1, o |-> [o EXCEPT !.i = i, !.j = j], ks |-> Append(f.ks, k)]

\* one pass of the loop body of RC4A.PRGA, lines 119-134
RC4AStep(f) ==
  LET o == f.o
  IN IF o.first_op
     THEN LET i == BitAnd_FF(o.i + 1)
              j == BitAnd_FF(o.j + f.h[o.s][i])
              h1 == SwapItems(f.h, o.s, i, j)
              k == h1[o.S2][BitAnd_FF(h1[o.s][i] + h1[o.s][j])]
          IN [h |-> h1,
              o |-> [o EXCEPT !.first_op = FALSE, !.i = i, !.j = j],
              ks |-> Append(f.ks, k)]
     ELSE LET j2 == BitAnd_FF(o.j2 + f.h[o.S2][o.i])
              h1 == SwapItems(f.h, o.S2, o.i, j2)
              k == h1[o.s][BitAnd_FF(h1[o.S2][o.i] + h1[o.S2][j2])]
          IN [h |-> h1,
              o |-> [o EXCEPT !.first_op = TRUE, !.j2 = j2],
              ks |-> Append(f.ks, k)]

\* a VMPC step that increments i before it stores b and a
VMPCStep_late(f) ==
  LET o == f.o
      a == f.h[o.s][o.i]
      j == f.h[o.s][BitAnd_FF(o.j + a)]
      b == f.h[o.s][j]
      k == f.h[o.s][BitAnd_FF(f.h[o.s][b] + 1)]
      i == BitAnd_FF(o.i + 1)
      h1 == SetItem(f.h, o.s, i, b)
      h2 == SetItem(h1, o.s, j, a)
  IN [h |-> h2, o |-> [o EXCEPT !.j = j, !.i = i], ks |-> Append(f.ks, k)]

\* one pass of the loop body of VMPC.PRGA, lines 159-168
VMPCStep(f) ==
  LET o == f.o
      a == f.h[o.s][o.i]
      j == f.h[o.s][BitAnd_FF(o.j + a)]
      b == f.h[o.s][j]
      k == f.h[o.s][BitAnd_FF(f.h[o.s][b] + 1)]
      h1 == SetItem(f.h, o.s, o.i, b)
      h2 == SetItem(h1, o.s, j, a)
  IN [h |-> h2,
      o |-> [o EXCEPT !.j = j, !.i = BitAnd_FF(o.i + 1)],
      ks |-> Append(f.ks, k)]

\* a step whose output is not masked before the final XOR
RCPlusTerms_wideK(h, o) ==
  LET i == BitAnd_FF(o.i + 1)
      a == h[o.s][i]
      j == BitAnd_FF(o.j + a)
      b == h[o.s][j]
      h1 == SetItem(h, o.s, i, b)
      h2 == SetItem(h1, o.s, j, a)
      s == h2[o.s]
      shl_i == ShiftLeft(i, 5)
      shl_j == ShiftLeft(j, 5)
      v == BitAnd_FF(BitXor(shl_i, ShiftRight(j, 3)))
      w == BitAnd_FF(BitXor(shl_j, ShiftRight(i, 3)))
      sum_c == s[v] + s[j] + s[w]
      c == BitAnd_FF(sum_c)
      sum_ab == a + b
      sum_jb == j + b
      sum_k == s[sum_ab % 256] + s[BitXor(c, 170)]
      k == BitXor(sum_k, s[BitAnd_FF(sum_jb)])
  IN [h |-> h2, i |-> i, j |-> j, a |-> a, b |-> b, shl_i |-> shl_i, shl_j |-> shl_j,
      v |-> v, w |-> w, sum_c |-> sum_c, c |-> c, cx |-> BitXor(c, 170),
      sum_ab |-> sum_ab, sum_jb |-> sum_jb, sum_k |-> sum_k, k |-> k]

\* the values one pass of the loop body of RCPlus.PRGA computes, lines 193-206,
\* each as Python computes it on its unbounded ints: shl_i is self.i << 5,
\* sum_c the sum under the mask of line 205, sum_ab, sum_jb and sum_k the sums
\* of line 206 before % 256 and & 0xFF
RCPlusTerms(h, o) ==
  LET i == BitAnd_FF(o.i + 1)
      a == h[o.s][i]
      j == BitAnd_FF(o.j + a)
      b == h[o.s][j]
      h1 == SetItem(h, o.s, i, b)
      h2 == SetItem(h1, o.s, j, a)
      s == h2[o.s]
      shl_i == ShiftLeft(i, 5)
      shl_j == ShiftLeft(j, 5)
      v == BitAnd_FF(BitXor(shl_i, ShiftRight(j, 3)))
      w == BitAnd_FF(BitXor(shl_j, ShiftRight(i, 3)))
      sum_c == s[v] + s[j] + s[w]
      c == BitAnd_FF(sum_c)
      sum_ab == a + b
      sum_jb == j + b
      sum_k == s[sum_ab % 256] + s[BitXor(c, 170)]
      k == BitXor(BitAnd_FF(sum_k), s[BitAnd_FF(sum_jb)])
  IN [h |-> h2, i |-> i, j |-> j, a |-> a, b |-> b, shl_i |-> shl_i, shl_j |-> shl_j,
      v |-> v, w |-> w, sum_c |-> sum_c, c |-> c, cx |-> BitXor(c, 170),
      sum_ab |-> sum_ab, sum_jb |-> sum_jb, sum_k |-> sum_k, k |-> k]

\* one pass of the loop body of RCPlus.PRGA, lines 193-208
RCPlusStep(f) ==
  LET t == RCPlusTerms(f.h, f.o)
  IN [h |-> t.h, o |-> [f.o EXCEPT !.i = t.i, !.j = t.j], ks |-> Append(f.ks, t.k)]

\* the loop body of self.PRGA, by the class of self (RCDrop inherits RC4.PRGA)
PRGAStep(f) ==
  CASE f.o.cls = "RC4A" -> RC4AStep(f)
    [] f.o.cls = "VMPC" -> VMPCStep(f)
    [] f.o.cls = "RCPlus" -> RCPlusStep(f)
    [] OTHER -> RC4Step(f)

\* for _ in range(n): body, in order (split in halves as in KSALoop)
RECURSIVE PRGALoop(_, _)
PRGALoop(f, n) ==
  IF n <= 0 THEN f
  ELSE IF n = 1 THEN PRGAStep(f)
  ELSE LET half == PRGALoop(f, n \div 2)
       IN IF half.o.i >= 0 THEN PRGALoop(half, n - (n \div 2)) ELSE half

\* a PRGA that starts every call from i = j = 0
PRGA_restart(h, o, size) ==
  PRGALoop([h |-> h, o |-> [o EXCEPT !.i = 0, !.j = 0], ks |-> <<>>], size)

\* a PRGA whose loop runs once too often
PRGA_extra(h, o, size) == PRGALoop([h |-> h, o |-> o, ks |-> <<>>], size + 1)

\* self.PRGA(size): key_stream = [] ... return key_stream
PRGA(h, o, size) == PRGALoop([h |-> h, o |-> o, ks |-> <<>>], size)

\* an XOR engine that adds instead
XorBytes_add(content, key_stream) ==
  [n \in 1..Len(content) |-> (content[n] + key_stream[n]) % 256]

\* bytes([content_bytes[i] ^ key_stream[i] for i in range(len(content_bytes))])
XorBytes(content, key_stream) ==
  [n \in 1..Len(content) |-> BitXor(content[n], key_stream[n])]

\* self.encode_decode(content_bytes), lines 79-80
EncodeDecode(h, o, content) ==
  LET f == PRGA(h, o, Len(content))
  IN [h |-> f.h, o |-> f.o, ks |-> f.ks, ret |-> XorBytes(content, f.ks)]

\* the UTF-8 bytes of one code point (surrogates are not among the inputs)
Utf8Char(cp) ==
  IF cp < 128 THEN <<cp>>
  ELSE IF cp < 2048 THEN <<192 + (cp \div 64), 128 + (cp % 64)>>
  ELSE IF cp < 65536
  THEN <<224 + (cp \div 4096), 128 + ((cp \div 64) % 64), 128 + (cp % 64)>>
  ELSE <<240 + (cp \div 262144), 128 + ((cp \div 4096) % 64),
         128 + ((cp \div 64) % 64), 128 + (cp % 64)>>

\* input_str.encode('utf8')
RECURSIVE Utf8Encode(_)
Utf8Encode(cps) ==
  IF cps = <<>> THEN <<>> ELSE Utf8Char(Head(cps)) \o Utf8Encode(Tail(cps))

\* self.encode_str(input_str), line 83: the result of encode_decode as a list
EncodeStr(h, o, text) == EncodeDecode(h, o, Utf8Encode(text.data))

(***************************************************************************)
(* Constructors.  A skip argument is [given, val]; RC4.__init__ takes no    *)
(* skip parameter, so giving one raises TypeError before the body runs.     *)
(***************************************************************************)
NoSkip == [given |-> FALSE, val |-> 0]
Skip(n) == [given |-> TRUE, val |-> n]

\* a default of 0 for every class
DefaultSkip_zero(cls) == 0

\* the default of the skip parameter: 768 for RCDrop (line 233), 0 otherwise
DefaultSkip(cls) == IF cls = "RCDrop" THEN 768 ELSE 0

SkipValue(cls, skip) == IF skip.given THEN skip.val ELSE DefaultSkip(cls)

\* RC4.__init__, lines 14-16; the subclasses reach it through super()
RC4Init(h, cls, key) ==
  LET r == KSA(h, key)
  IN [h |-> r.h, exc |-> r.exc,
      o |-> IF r.exc = "none"
            THEN [cls |-> cls, i |-> 0, j |-> 0, s |-> r.ref,
                  S2 |-> 0, j2 |-> 0, first_op |-> TRUE]
            ELSE NoObj]

\* an RC4A.__init__ that makes S2 another name of the list s
RC4AInit_shared(h, key) ==
  LET r == RC4Init(h, "RC4A", key)
  IN IF r.exc # "none" THEN r
     ELSE [h |-> r.h, exc |-> "none",
           o |-> [r.o EXCEPT !.S2 = r.o.s, !.j2 = 0, !.first_op = TRUE]]

\* RC4A.__init__ up to the skip, lines 105-110
RC4AInit(h, key) ==
  LET r == RC4Init(h, "RC4A", key)
  IN IF r.exc # "none" THEN r
     ELSE LET r2 == KSA(r.h, key)
          IN [h |-> r2.h, exc |-> r2.exc,
              o |-> IF r2.exc = "none"
                    THEN [r.o EXCEPT !.S2 = r2.ref, !.j2 = 0, !.first_op = TRUE]
                    ELSE NoObj]

\* a constructor that runs one step fewer than asked
SkipSteps_short(skip) == IF skip > 0 THEN skip - 1 ELSE 0

\* if skip > 0: self.PRGA(skip)
SkipSteps(skip) == IF skip > 0 THEN skip ELSE 0

\* cls(key) or cls(key, skip)
New(h, cls, key, skip) ==
  IF cls = "RC4" /\ skip.given
  THEN [h |-> h, o |-> NoObj, exc |-> "TypeError"]
  ELSE LET r == IF cls = "RC4A" THEN RC4AInit(h, key) ELSE RC4Init(h, cls, key)
       IN IF r.exc # "none" \/ cls = "RC4" THEN r
          ELSE LET f == PRGA(r.h, r.o, SkipSteps(SkipValue(cls, skip)))
               IN [h |-> f.h, o |-> f.o, exc |-> "none"]

(***************************************************************************)
(* rc4() of src/rc4_single_function.py.  The arguments are references into  *)
(* the heap of buffers; iv = 0 stands for an omitted initialization_vector, *)
(* whose default is b''.  The S-box s is a local list of the call.          *)
(***************************************************************************)
DefaultIV == PyBytes(<<>>)

\* the value of the initialization_vector parameter
IVValue(h, iv) == IF iv = 0 THEN DefaultIV ELSE h[iv]

\* key = [ord(char) for char in key[:256]] if key is a str, lines 29-30
Rc4Key(key) ==
  IF key.type = "str"
  THEN [n \in 1..(IF Len(key.data) < 256 THEN Len(key.data) ELSE 256) |-> Ord(key.data[n])]
  ELSE key.data

\* one pass of the S-box loop, lines 37-38; f = [s, j]
Rc4KSAStep(f, key, i) ==
  LET j == BitAnd_FF(f.j + f.s[i] + key[(i % Len(key)) + 1])
  IN [s |-> [f.s EXCEPT ![i] = f.s[j], ![j] = f.s[i]], j |-> j]

\* for i in range(lo, hi), in order (split in halves as in KSALoop)
RECURSIVE Rc4KSALoop(_, _, _, _)
Rc4KSALoop(f, key, lo, hi) ==
  IF lo >= hi THEN f
  ELSE IF hi = lo + 1 THEN Rc4KSAStep(f, key, lo)
  ELSE LET mid == (lo + hi) \div 2
           left == Rc4KSALoop(f, key, lo, mid)
       IN IF left.j >= 0 THEN Rc4KSALoop(left, key, mid, hi) ELSE left

\* lines 34-38: the S-box of the key
Rc4SBox(key) == Rc4KSALoop([s |-> Range256, j |-> 0], key, 0, 256).s

\* sum(c << i for i, c in enumerate(iv)), from position n (1-based) on
RECURSIVE IVSum(_, _)
IVSum(iv, n) ==
  IF n > Len(iv) THEN 0 ELSE ShiftLeft(iv[n], n - 1) + IVSum(iv, n + 1)

\* initialization_vector[:16]
First16(iv) == IF Len(iv) <= 16 THEN iv ELSE SubSeq(iv, 1, 16)

\* a skip derivation that forgets the constant
Rc4Skip_no510(iv) == BitAnd_FFFF(IVSum(First16(iv), 1))

\* line 46
Rc4Skip(iv) == BitAnd_FFFF(510 + IVSum(First16(iv), 1))

\* a skip that is derived from an empty IV as well
Rc4SkipCount_always(ivv) == Rc4Skip(ivv.data)

\* lines 45-46: if initialization_vector: skip = ...; an empty IV skips nothing
Rc4SkipCount(ivv) == IF Len(ivv.data) > 0 THEN Rc4Skip(ivv.data) ELSE 0

\* one pass of the skip loop, lines 49-51; f = [s, i, j]
Rc4SkipStep(f) ==
  LET i == BitAnd_FF(f.i + 1)
      j == BitAnd_FF(f.j + f.s[i])
  IN [s |-> [f.s EXCEPT ![i] = f.s[j], ![j] = f.s[i]], i |-> i, j |-> j]

\* for _ in range(n), in order (split in halves as in KSALoop)
RECURSIVE Rc4SkipLoop(_, _)
Rc4SkipLoop(f, n) ==
  IF n <= 0 THEN f
  ELSE IF n = 1 THEN Rc4SkipStep(f)
  ELSE LET half == Rc4SkipLoop(f, n \div 2)
       IN IF half.i >= 0 THEN Rc4SkipLoop(half, n - (n \div 2)) ELSE half

\* a copy that hands back a mutable input itself
Rc4Copy_alias(h, input) ==
  IF h[input].type = "bytes"
  THEN [h |-> Append(h, PyByteArray(h[input].data)), ref |-> Len(h) + 1]
  ELSE [h |-> h, ref |-> input]

\* lines 54-57: bytearray(input_bytes) or input_bytes[:], a new bytearray
Rc4Copy(h, input) ==
  [h |-> Append(h, PyByteArray(h[input].data)), ref |-> Len(h) + 1]

\* an XOR step that forgets to swap s[i] and s[j]
Rc4XorStep_noswap(f, idx) ==
  LET i == BitAnd_FF(f.i + 1)
      j == BitAnd_FF(f.j + f.s[i])
      k == f.s[BitAnd_FF(f.s[i] + f.s[j])]
  IN [h |-> [f.h EXCEPT ![f.out].data[idx + 1] = BitXor(f.h[f.out].data[idx + 1], k)],
      out |-> f.out, s |-> f.s, i |-> i, j |-> j]

\* one pass of the XOR loop, lines 61-67; f = [h, out, s, i, j], idx 0-based
Rc4XorStep(f, idx) ==
  LET i == BitAnd_FF(f.i + 1)
      j == BitAnd_FF(f.j + f.s[i])
      s == [f.s EXCEPT ![i] = f.s[j], ![j] = f.s[i]]
      k == s[BitAnd_FF(s[i] + s[j])]
  IN [h |-> [f.h EXCEPT ![f.out].data[idx + 1] = BitXor(f.h[f.out].data[idx + 1], k)],
      out |-> f.out, s |-> s, i |-> i, j |-> j]

\* for idx in range(lo, hi), in order (split in halves as in KSALoop)
RECURSIVE Rc4XorLoop(_, _, _)
Rc4XorLoop(f, lo, hi) ==
  IF lo >= hi THEN f
  ELSE IF hi = lo + 1 THEN Rc4XorStep(f, lo)
  ELSE LET mid == (lo + hi) \div 2
           left == Rc4XorLoop(f, lo, mid)
       IN IF left.i >= 0 THEN Rc4XorLoop(left, mid, hi) ELSE left

NoLocals == [s |-> Range256, i |-> 0, j |-> 0, skip |-> 0]

\* raise e(msg): nothing is returned and the locals s, i, j, skip are not bound
Rc4Raise(h, e) == [h |-> h, ret |-> 0, exc |-> e.exc, msg |-> e.msg, loc |-> NoLocals]

Passed == [exc |-> "none", msg |-> ""]

\* argument checks that look at the input before the key
Rc4Check_inputFirst(key, input, ivv) ==
  IF input.type \notin {"bytes", "bytearray"}
  THEN [exc |-> "TypeError", msg |-> "input should be bytes"]
  ELSE IF key.type \notin {"str", "bytes", "bytearray"}
  THEN [exc |-> "TypeError", msg |-> "key should be bytes"]
  ELSE IF ivv.type \notin {"bytes", "bytearray"}
  THEN [exc |-> "TypeError", msg |-> "IV should be bytes"]
  ELSE IF Len(key.data) = 0 THEN [exc |-> "AssertionError", msg |-> ""]
  ELSE Passed

\* lines 20-26: the isinstance checks on key, input_bytes and
\* initialization_vector, in this order, then assert len(key) > 0
Rc4Check(key, input, ivv) ==
  IF key.type \notin {"str", "bytes", "bytearray"}
  THEN [exc |-> "TypeError", msg |-> "key should be bytes"]
  ELSE IF input.type \notin {"bytes", "bytearray"}
  THEN [exc |-> "TypeError", msg |-> "input should be bytes"]
  ELSE IF ivv.type \notin {"bytes", "bytearray"}
  THEN [exc |-> "TypeError", msg |-> "IV should be bytes"]
  ELSE IF Len(key.data) = 0 THEN [exc |-> "AssertionError", msg |-> ""]
  ELSE Passed

\* rc4(key, input_bytes, initialization_vector), lines 20-69.  loc holds the
\* locals s, i, j and skip as they are when the call returns.
Rc4(h, key, input, iv) ==
  LET ivv == IVValue(h, iv)
      chk == Rc4Check(h[key], h[input], ivv)
  IN IF chk # Passed THEN Rc4Raise(h, chk)
     ELSE LET k == Rc4Key(h[key])
              s0 == Rc4SBox(k)
              skip == Rc4SkipCount(ivv)
              f1 == Rc4SkipLoop([s |-> s0, i |-> 0, j |-> 0], skip)
              c == Rc4Copy(h, input)
              f2 == Rc4XorLoop([h |-> c.h, out |-> c.ref, s |-> f1.s, i |-> f1.i, j |-> f1.j],
                               0, Len(c.h[c.ref].data))
          IN [h |-> f2.h, ret |-> f2.out, exc |-> "none", msg |-> "",
              loc |-> [s |-> f2.s, i |-> f2.i, j |-> f2.j, skip |-> skip]]

(***************************************************************************)
(* The client of the class API.  X is constructed with any arguments; it   *)
(* draws keystream with PRGA or passes the next bytes of a message through  *)
(* encode_decode.  Y is its twin: it is constructed with the arguments of   *)
(* X, at the latest after the first call on X, and its k-th call repeats    *)
(* the k-th call made on X; its first call may instead feed encode_decode   *)
(* with what the first call on X returned.  Both are live at once and their *)
(* calls interleave.                                                        *)
(***************************************************************************)
Slots == {"X", "Y"}

\* keys longer than 256: 300 bytes, and a text of 260 characters above U+00FF
LongBytes == [n \in 1..300 |-> (n * 7 + (n \div 257) * 100) % 256]
LongText == [n \in 1..260 |-> 300 + n]

\* the message of the client, an endless repetition of these bytes
MessageBytes == <<116, 255, 0, 85, 101, 170>>
Message(from, n) == [k \in 1..n |-> MessageBytes[((from + k - 2) % Len(MessageBytes)) + 1]]

ClassKeys == {PyStr(<<107, 101, 121>>), PyByteArray(<<1, 200>>), PyBytes(<<>>)}

\* a key after whose KSA s[1] = 1: the first PRGA step of RC4 and RC4A then
\* swaps s[1] with itself
VoidSwapKey == PyBytes(<<0, 3>>)
SkipArgs == {NoSkip, Skip(0), Skip(1), Skip(2), Skip(573)}

\* the bytes drawn from instance a so far
RECURSIVE SumSizes(_)
SumSizes(h) == IF h = <<>> THEN 0 ELSE h[1].size + SumSizes(Tail(h))
Used(a) == SumSizes(hist[a])

NoCtor == [cls |-> "none", key |-> PyBytes(<<>>), skip |-> NoSkip]

\* the skip arguments the client combines with its bytearray key
ByteArrayKeySkips == {NoSkip, Skip(2)}

\* the constructor calls X is made by
XCtorArgs ==
  {c \in {[cls |-> c, key |-> k, skip |-> s] :
             c \in Classes, k \in ClassKeys, s \in SkipArgs} :
      c.key.type = "bytearray" => c.skip \in ByteArrayKeySkips}
  \cup {[cls |-> "RC4A", key |-> VoidSwapKey, skip |-> s] : s \in {NoSkip, Skip(0)}}

CtorArgs(a) ==
  IF a = "X"
  THEN XCtorArgs
  ELSE IF Len(hist["X"]) <= 1 THEN {ctor["X"]} \ {NoCtor} ELSE {}

PRGACall(n) == [op |-> "PRGA", size |-> n, content |-> <<>>]
EDCall(c) == [op |-> "encode_decode", size |-> Len(c), content |-> c]
CallOf(e) == [op |-> e.op, size |-> e.size, content |-> e.content]

\* what X may pass through encode_decode a second time: the bytes its last
\* call returned, when that call was encode_decode
Reapplied(a) ==
  IF hist[a] = <<>> THEN {}
  ELSE LET e == hist[a][Len(hist[a])]
       IN IF e.op = "encode_decode" /\ e.size >= 1 /\ e.size <= MaxBytes - Used(a)
          THEN {EDCall(e.ret)} ELSE {}

CallArgs(a) ==
  IF a = "X"
  THEN {PRGACall(n) : n \in 0..(MaxBytes - Used(a))}
       \cup {EDCall(Message(Used(a) + 1, n)) : n \in 0..(MaxBytes - Used(a))}
       \cup Reapplied(a)
  ELSE LET k == Len(hist["Y"]) + 1
       IN IF k > Len(hist["X"]) THEN {}
          ELSE LET e == hist["X"][k]
               IN {CallOf(e)}
                  \cup (IF e.op = "encode_decode" /\ k = 1 THEN {EDCall(e.ret)} ELSE {})

Init ==
  /\ api \in {"class", "ksa", "function"}
  /\ lists = <<>>
  /\ obj = [a \in Slots |-> NoObj]
  /\ ctor = [a \in Slots |-> NoCtor]
  /\ exc = [a \in Slots |-> "none"]
  /\ hist = [a \in Slots |-> <<>>]
  /\ kcalls = <<>>
  /\ bufs = <<>>
  /\ fcalls = <<>>

\* a = cls(key) or a = cls(key, skip)
Construct(a, c) ==
  /\ api = "class"
  /\ ctor[a] = NoCtor
  /\ \E r \in {New(lists, c.cls, c.key, c.skip)} :
        /\ lists' = r.h
        /\ obj' = [obj EXCEPT ![a] = r.o]
        /\ exc' = [exc EXCEPT ![a] = r.exc]
  /\ ctor' = [ctor EXCEPT ![a] = c]
  /\ UNCHANGED <<api, hist, kcalls, bufs, fcalls>>

\* a.PRGA(size)
CallPRGA(a, c) ==
  /\ api = "class"
  /\ obj[a] # NoObj
  /\ Len(hist[a]) < MaxCalls
  /\ c.op = "PRGA"
  /\ \E f \in {PRGA(lists, obj[a], c.size)} :
        /\ lists' = f.h
        /\ obj' = [obj EXCEPT ![a] = f.o]
        /\ hist' = [hist EXCEPT ![a] = Append(@, [op |-> c.op, size |-> c.size,
                       content |-> c.content, ks |-> f.ks, ret |-> f.ks])]
  /\ UNCHANGED <<api, ctor, exc, kcalls, bufs, fcalls>>

\* a.encode_decode(content)
CallEncodeDecode(a, c) ==
  /\ api = "class"
  /\ obj[a] # NoObj
  /\ Len(hist[a]) < MaxCalls
  /\ c.op = "encode_decode"
  /\ \E r \in {EncodeDecode(lists, obj[a], c.content)} :
        /\ lists' = r.h
        /\ obj' = [obj EXCEPT ![a] = r.o]
        /\ hist' = [hist EXCEPT ![a] = Append(@, [op |-> c.op, size |-> c.size,
                       content |-> c.content, ks |-> r.ks, ret |-> r.ret])]
  /\ UNCHANGED <<api, ctor, exc, kcalls, bufs, fcalls>>

\* a.encode_str(text)
CallEncodeStr(a, text) ==
  /\ api = "class"
  /\ obj[a] # NoObj
  /\ Len(hist[a]) < MaxCalls
  /\ \E r \in {EncodeStr(lists, obj[a], text)} :
        /\ lists' = r.h
        /\ obj' = [obj EXCEPT ![a] = r.o]
        /\ hist' = [hist EXCEPT ![a] = Append(@, [op |-> "encode_str", size |-> Len(r.ks),
                       content |-> Utf8Encode(text.data), ks |-> r.ks, ret |-> r.ret])]
  /\ UNCHANGED <<api, ctor, exc, kcalls, bufs, fcalls>>

(***************************************************************************)
(* The client of the static method: it calls RC4.KSA(key) on keys of many   *)
(* lengths and keeps the lists it gets.                                     *)
(***************************************************************************)
KSAKeys == {PyBytes(<<>>), PyStr(<<>>), PyBytes(<<0>>), PyBytes(<<255, 255>>), PyStr(<<8364, 107>>),
            PyBytes([n \in 1..255 |-> (7 * n) % 256]),
            PyByteArray([n \in 1..256 |-> 255]),
            PyBytes([n \in 1..256 |-> 256 - n]),
            PyBytes([n \in 1..257 |-> (n * n) % 256]),
            PyBytes(LongBytes), PyStr(LongText)}

\* RC4.KSA(key)
CallKSA(key) ==
  /\ api = "ksa"
  /\ Len(kcalls) < MaxCalls
  /\ \E r \in {KSA(lists, key)} :
        /\ lists' = r.h
        /\ kcalls' = Append(kcalls, [key |-> key, ret |-> r.ref, exc |-> r.exc])
  /\ UNCHANGED <<api, obj, ctor, exc, hist, bufs, fcalls>>

(***************************************************************************)
(* The client of rc4().  The first call is made on fresh argument objects;  *)
(* a later call passes the same key and IV objects again, with the same     *)
(* input object or with the buffer the previous call returned.              *)
(***************************************************************************)
FnKeys == {PyStr(<<75, 101, 121>>), PyBytes(<<1, 200>>), PyByteArray(<<>>),
           PyList(<<1, 200>>), PyNone, PyByteArray(LongBytes), PyStr(LongText)}
FnContents == {Message(1, n) : n \in 0..MaxBytes}
FnInputs == {PyBytes(c) : c \in FnContents} \cup {PyByteArray(c) : c \in FnContents}
              \cup {PyStr(<<116>>)}
IVAll255 == [n \in 1..17 |-> 255]
FnIVs == {PyBytes(<<>>), PyBytes(<<0>>), PyByteArray(<<254, 2>>), PyBytes(IVAll255),
          PyBytes(<<0, 1, 0, 0, 0, 0, 0, 0, 254>>), PyStr(<<49>>), PyBytes(<<70>>)}

\* the values of the three argument objects
ArgValues(h, key, input, iv) == [key |-> h[key], input |-> h[input], iv |-> IVValue(h, iv)]

Rc4Call(h, key, input, iv) ==
  /\ api = "function"
  /\ Len(fcalls) < MaxFnCalls
  /\ \E r \in {Rc4(h, key, input, iv)} :
        /\ bufs' = r.h
        /\ fcalls' = Append(fcalls, [key |-> key, input |-> input, iv |-> iv,
                        before |-> ArgValues(h, key, input, iv), nbefore |-> Len(h),
                        ret |-> r.ret, exc |-> r.exc, msg |-> r.msg, loc |-> r.loc])
  /\ UNCHANGED <<api, lists, obj, ctor, exc, hist, kcalls>>

\* the inputs and IVs the client combines with a key: all of them with a key
\* of up to 256 items, bytes inputs and two IVs with a longer key
FnInputsFor(k) ==
  IF Len(k.data) <= 256 THEN FnInputs ELSE {d \in FnInputs : d.type = "bytes"}
FnIVsFor(k) ==
  IF Len(k.data) <= 256 THEN FnIVs ELSE {PyBytes(<<>>), PyByteArray(<<254, 2>>)}

\* rc4(key, input) and rc4(key, input, iv) on new objects
FirstRc4 ==
  /\ fcalls = <<>>
  /\ \E k \in FnKeys : \E d \in FnInputsFor(k) :
       \/ Rc4Call(<<k, d>>, 1, 2, 0)
       \/ \E v \in FnIVsFor(k) : Rc4Call(<<k, d, v>>, 1, 2, 3)

\* rc4 again on the objects of the previous call
NextRc4 ==
  /\ fcalls # <<>>
  /\ LET p == fcalls[Len(fcalls)]
     IN \E d \in {p.input} \cup ({p.ret} \ {0}) : Rc4Call(bufs, p.key, d, p.iv)

DoConstruct == \E a \in Slots : \E c \in CtorArgs(a) : Construct(a, c)
DoPRGA == \E a \in Slots : \E c \in CallArgs(a) : CallPRGA(a, c)
DoEncodeDecode == \E a \in Slots : \E c \in CallArgs(a) : CallEncodeDecode(a, c)
DoKSA == \E k \in KSAKeys : CallKSA(k)

Next == DoConstruct \/ DoPRGA \/ DoEncodeDecode \/ DoKSA \/ FirstRc4 \/ NextRc4

Spec == Init /\ [][Next]_vars

(***************************************************************************)
(* The reference runs: the doctests and the __main__ driver of              *)
(* src/rc4_class.py, and the doctests of src/rc4_single_function.py.  X and *)
(* Y are constructed, one after the other, as in any of the runs and encode *)
(* the text 'test'; rc4() is called as _encrypt_to_hex calls it and then    *)
(* again on what it returned.                                               *)
(***************************************************************************)
TextKey == PyStr(<<107, 101, 121>>)
TextTest == PyStr(<<116, 101, 115, 116>>)

VecCtors ==
  {[cls |-> "RC4", key |-> TextKey, skip |-> NoSkip],
   [cls |-> "RC4A", key |-> TextKey, skip |-> NoSkip],
   [cls |-> "RC4A", key |-> TextKey, skip |-> Skip(1234)],
   [cls |-> "VMPC", key |-> TextKey, skip |-> NoSkip],
   [cls |-> "RCDrop", key |-> TextKey, skip |-> Skip(4096)],
   [cls |-> "RCPlus", key |-> TextKey, skip |-> NoSkip]}

\* the ASCII bytes of 'Key', 'Wiki', 'Secret' and of the three plaintexts
AsciiKey == <<75, 101, 121>>
AsciiWiki == <<87, 105, 107, 105>>
AsciiSecret == <<83, 101, 99, 114, 101, 116>>
AsciiPlaintext == <<80, 108, 97, 105, 110, 116, 101, 120, 116>>
AsciiPedia == <<112, 101, 100, 105, 97>>
AsciiAttack == <<65, 116, 116, 97, 99, 107, 32, 97, 116, 32, 100, 97, 119, 110>>

VecCalls ==
  {[key |-> AsciiKey, text |-> AsciiPlaintext],
   [key |-> AsciiWiki, text |-> AsciiPedia],
   [key |-> AsciiSecret, text |-> AsciiAttack]}

DoVecConstruct ==
  \E a \in Slots : \E c \in VecCtors :
    /\ a = "Y" => (ctor["X"] # NoCtor /\ hist["X"] = <<>>)
    /\ Construct(a, c)
DoVecEncodeStr == \E a \in Slots : CallEncodeStr(a, TextTest)
VecFirstRc4 ==
  /\ fcalls = <<>>
  /\ \E v \in VecCalls : Rc4Call(<<PyBytes(v.key), PyBytes(v.text)>>, 1, 2, 0)

InitVec == Init /\ api \in {"class", "function"}
NextVec == DoVecConstruct \/ DoVecEncodeStr \/ VecFirstRc4 \/ NextRc4

SpecVec == InitVec /\ [][NextVec]_vars

(***************************************************************************)
(* Helpers of the properties.                                               *)
(***************************************************************************)
Live(a) == obj[a] # NoObj

\* the keystream instance a has produced since its construction, call by call
RECURSIVE ConcatKS(_)
ConcatKS(h) == IF h = <<>> THEN <<>> ELSE h[1].ks \o ConcatKS(Tail(h))

IsByte(x) == x \in 0..255
IsPermutation(l) == DOMAIN l = 0..255 /\ {l[n] : n \in 0..255} = 0..255

\* the state of instance a by value: its counters and the contents of its lists
StateOf(a) ==
  [cls |-> obj[a].cls, i |-> obj[a].i, j |-> obj[a].j, j2 |-> obj[a].j2,
   first_op |-> obj[a].first_op, s |-> lists[obj[a].s],
   S2 |-> IF obj[a].S2 = 0 THEN Range256 ELSE lists[obj[a].S2]]

\* the calls of the first n entries of a history, and their results
Calls(h, n) == [k \in 1..n |-> CallOf(h[k])]
Results(h, n) == [k \in 1..n |-> [ks |-> h[k].ks, ret |-> h[k].ret]]

ValidClassKeys == {k \in ClassKeys : Len(k.data) > 0} \cup {VoidSwapKey}

\* the class whose skip-0 keystream a class is measured against
BaseCtor(cls, key) ==
  IF cls = "RCDrop" THEN [cls |-> "RC4", key |-> key, skip |-> NoSkip]
  ELSE [cls |-> cls, key |-> key, skip |-> Skip(0)]

\* the first 768 + MaxBytes keystream bytes of the skip-0 instance, drawn by one
\* call of PRGA, for every class that takes a skip and every key of the client
BaselineTable ==
  {LET b == BaseCtor(c[1], c[2])
       r == New(<<>>, b.cls, b.key, b.skip)
   IN [cls |-> c[1], key |-> c[2], ks |-> PRGA(r.h, r.o, 768 + MaxBytes).ks]
   : c \in (Classes \ {"RC4"}) \X ValidClassKeys}
BaselineKS(cls, key) == (CHOOSE e \in BaselineTable : e.cls = cls /\ e.key = key).ks

(***************************************************************************)
(* C1  Round trip.  When X, freshly constructed, has passed P through       *)
(* encode_decode and got C, and Y, freshly constructed with the same class, *)
(* key and skip, has passed C through encode_decode, Y has returned P.      *)
(***************************************************************************)
RoundTripDone ==
  /\ Live("X") /\ Live("Y") /\ ctor["X"] = ctor["Y"]
  /\ Len(hist["X"]) >= 1 /\ Len(hist["Y"]) >= 1
  /\ hist["X"][1].op = "encode_decode" /\ hist["Y"][1].op = "encode_decode"
  /\ hist["Y"][1].content = hist["X"][1].ret

C1_RoundTrip == RoundTripDone => hist["Y"][1].ret = hist["X"][1].content

C1_Witness ==
  /\ RoundTripDone
  /\ ctor["X"].cls = "RC4A" /\ ctor["X"].skip = Skip(1)
  /\ Len(hist["X"][1].content) = MaxBytes
  /\ hist["X"][1].ret # hist["X"][1].content
  /\ hist["Y"][1].ret = hist["X"][1].content

(***************************************************************************)
(* C2  Every S-box is a permutation of 0..255 at every observation point:   *)
(* the list RC4.KSA returns for a key of any length, and the lists of every *)
(* instance after its construction (with or without skip) and after any     *)
(* sequence of PRGA and encode_decode calls.                                *)
(***************************************************************************)
C2_Permutation == \A r \in 1..Len(lists) : IsPermutation(lists[r])

C2_Witness ==
  /\ Live("X") /\ obj["X"].cls = "RC4A" /\ ctor["X"].skip = Skip(2)
  /\ Used("X") = MaxBytes /\ Len(hist["X"]) = MaxCalls
  /\ lists[obj["X"].s] # lists[obj["X"].S2]
  /\ IsPermutation(lists[obj["X"].s]) /\ IsPermutation(lists[obj["X"].S2])

(***************************************************************************)
(* C3  Skip equivalence.  For RC4A, VMPC, RCPlus and RCDrop, the keystream  *)
(* an instance constructed with skip s has produced so far, N bytes over    *)
(* any number of calls, is bytes s .. s+N-1 of the keystream of the same    *)
(* class and key constructed with skip 0 (for RCDrop: of RC4).              *)
(***************************************************************************)
SkipOf(a) ==
  IF ctor[a].skip.given THEN ctor[a].skip.val
  ELSE IF ctor[a].cls = "RCDrop" THEN 768 ELSE 0

C3_SkipEquivalence ==
  \A a \in Slots :
    (Live(a) /\ ctor[a].cls # "RC4") =>
      LET ks == ConcatKS(hist[a])
          base == BaselineKS(ctor[a].cls, ctor[a].key)
      IN ks = SubSeq(base, SkipOf(a) + 1, SkipOf(a) + Len(ks))

C3_Witness ==
  /\ Live("X") /\ ctor["X"].cls = "RC4A" /\ ctor["X"].skip = Skip(1)
  /\ Len(hist["X"]) = MaxCalls /\ Used("X") = MaxBytes
  /\ hist["X"][1].size >= 1 /\ hist["X"][2].size >= 1
  /\ obj["X"].first_op = (((1 + MaxBytes) % 2) = 0)
  /\ ConcatKS(hist["X"]) # SubSeq(BaselineKS("RC4A", ctor["X"].key), 1, MaxBytes)

(***************************************************************************)
(* C4  Reference vectors of the class API.  With key 'key', the first       *)
(* encode_str('test') on a fresh instance returns [127, 9, 71, 153] for     *)
(* RC4, [127, 110, 31, 24] for RC4A, [250, 235, 192, 199] for RC4A with     *)
(* skip 1234, [19, 95, 153, 146] for VMPC, [101, 75, 195, 218] for RCDrop   *)
(* with skip 4096 and [39, 207, 224, 135] for RCPlus.                       *)
(***************************************************************************)
EncodedTest(a) ==
  /\ Live(a) /\ ctor[a].key = TextKey /\ Len(hist[a]) >= 1
  /\ hist[a][1].op = "encode_str" /\ hist[a][1].content = <<116, 101, 115, 116>>

Made(a, cls, skip) == ctor[a].cls = cls /\ ctor[a].skip = skip

C4_ClassVectors ==
  \A a \in Slots :
    EncodedTest(a) =>
      /\ Made(a, "RC4", NoSkip) => hist[a][1].ret = <<127, 9, 71, 153>>
      /\ Made(a, "RC4A", NoSkip) => hist[a][1].ret = <<127, 110, 31, 24>>
      /\ Made(a, "RC4A", Skip(1234)) => hist[a][1].ret = <<250, 235, 192, 199>>
      /\ Made(a, "VMPC", NoSkip) => hist[a][1].ret = <<19, 95, 153, 146>>
      /\ Made(a, "RCDrop", Skip(4096)) => hist[a][1].ret = <<101, 75, 195, 218>>
      /\ Made(a, "RCPlus", NoSkip) => hist[a][1].ret = <<39, 207, 224, 135>>

C4_Witness ==
  /\ EncodedTest("X") /\ Made("X", "RCDrop", Skip(4096))
  /\ EncodedTest("Y") /\ Made("Y", "RC4A", Skip(1234))
  /\ hist["X"][1].ret = <<101, 75, 195, 218>>
  /\ hist["Y"][1].ret = <<250, 235, 192, 199>>

(***************************************************************************)
(* C5  Reference vectors of rc4() without IV.  Key 'Key' on 'Plaintext'     *)
(* gives BBF316E8D940AF0AD3, 'Wiki' on 'pedia' gives 1021BF0420, 'Secret'   *)
(* on 'Attack at dawn' gives 45A01F645FC35B383552544B9BF5 (written here as  *)
(* bytes), and rc4 with the same key on each ciphertext gives the           *)
(* plaintext back.                                                          *)
(***************************************************************************)
CipherPlaintext == <<187, 243, 22, 232, 217, 64, 175, 10, 211>>
CipherPedia == <<16, 33, 191, 4, 32>>
CipherAttack == <<69, 160, 31, 100, 95, 195, 91, 56, 53, 82, 84, 75, 155, 245>>

\* call c was rc4(key, input) without IV and returned
Returned(c, key, input) ==
  c.exc = "none" /\ c.iv = 0 /\ c.before.key.data = key /\ c.before.input.data = input

Maps(c, key, from, to) ==
  /\ Returned(c, key, from) => bufs[c.ret].data = to
  /\ Returned(c, key, to) => bufs[c.ret].data = from

C5_FunctionVectors ==
  \A n \in 1..Len(fcalls) :
    /\ Maps(fcalls[n], AsciiKey, AsciiPlaintext, CipherPlaintext)
    /\ Maps(fcalls[n], AsciiWiki, AsciiPedia, CipherPedia)
    /\ Maps(fcalls[n], AsciiSecret, AsciiAttack, CipherAttack)

C5_Witness ==
  /\ Len(fcalls) = 2
  /\ Returned(fcalls[1], AsciiSecret, AsciiAttack)
  /\ Returned(fcalls[2], AsciiSecret, CipherAttack)
  /\ fcalls[2].input = fcalls[1].ret
  /\ bufs[fcalls[2].ret].data = AsciiAttack

(***************************************************************************)
(* C6  Zero-skip identity.  A call of rc4() with an omitted or empty IV     *)
(* that returns has skipped nothing and has returned the bytes that         *)
(* RC4(key).encode_decode(input) returns on a fresh instance; its S-box and *)
(* counters end as those of that instance.                                  *)
(***************************************************************************)
\* cls(key, skip).encode_decode(input) on a fresh instance, on a heap of its own
FreshEncodeDecode(cls, key, skip, input) ==
  LET r == New(<<>>, cls, key, skip)
  IN EncodeDecode(r.h, r.o, input)

SameAsInstance(c, e) ==
  /\ bufs[c.ret].data = e.ret
  /\ c.loc.i = e.o.i /\ c.loc.j = e.o.j /\ c.loc.s = e.h[e.o.s]

C6_ZeroSkipIdentity ==
  \A n \in 1..Len(fcalls) :
    LET c == fcalls[n]
    IN (c.exc = "none" /\ Len(c.before.iv.data) = 0) =>
         /\ c.loc.skip = 0
         /\ \E e \in {FreshEncodeDecode("RC4", c.before.key, NoSkip, c.before.input.data)} :
               SameAsInstance(c, e)

C6_Witness ==
  /\ Len(fcalls) = 2
  /\ fcalls[1].exc = "none" /\ fcalls[1].iv # 0 /\ fcalls[1].before.iv.data = <<>>
  /\ fcalls[1].before.key.type = "str"
  /\ Len(fcalls[1].before.input.data) = MaxBytes
  /\ bufs[fcalls[1].ret].data # fcalls[1].before.input.data
  /\ fcalls[1].loc.i = MaxBytes % 256

(***************************************************************************)
(* C7  IV-derived skip.  A call of rc4() with a non-empty IV that returns   *)
(* has returned what RCDrop(key, skip).encode_decode(input) returns on a    *)
(* fresh instance, where skip = (510 + sum over k < min(len(iv), 16) of     *)
(* iv[k] * 2^k) mod 65536, a number in 0..65535; the IV FE 02 gives 768.    *)
(***************************************************************************)
RECURSIVE WeightedSum(_, _)
WeightedSum(iv, n) == IF n = 0 THEN 0 ELSE WeightedSum(iv, n - 1) + iv[n] * (2 ^ (n - 1))
ClaimedSkip(iv) == (510 + WeightedSum(iv, IF Len(iv) < 16 THEN Len(iv) ELSE 16)) % 65536

C7_IVSkip ==
  \A n \in 1..Len(fcalls) :
    LET c == fcalls[n]
        skip == ClaimedSkip(c.before.iv.data)
    IN (c.exc = "none" /\ Len(c.before.iv.data) > 0) =>
         /\ c.loc.skip = skip
         /\ skip \in 0..65535
         /\ c.before.iv.data = <<254, 2>> => skip = 768
         /\ \E e \in {FreshEncodeDecode("RCDrop", c.before.key, Skip(skip),
                                        c.before.input.data)} :
               SameAsInstance(c, e)

C7_Witness ==
  /\ Len(fcalls) = 1
  /\ fcalls[1].exc = "none" /\ Len(fcalls[1].before.iv.data) = 17
  /\ fcalls[1].loc.skip = 255
  /\ Len(fcalls[1].before.input.data) = MaxBytes
  /\ bufs[fcalls[1].ret].data # fcalls[1].before.input.data

(***************************************************************************)
(* C8  Determinism.  Two instances constructed with the same class, key and *)
(* skip end their construction alike; as long as the same calls have been   *)
(* made on both they have returned the same keystream and outputs, and      *)
(* after the same calls they are in the same state, whatever has been done  *)
(* to the other in between.  Two calls of RC4.KSA on the same key return    *)
(* equal lists, and two calls of rc4() on equal arguments end alike and     *)
(* return equal bytes.                                                      *)
(***************************************************************************)
MinLen(h1, h2) == IF Len(h1) < Len(h2) THEN Len(h1) ELSE Len(h2)

C8_Determinism ==
  /\ (ctor["Y"] # NoCtor /\ ctor["X"] = ctor["Y"]) =>
       /\ exc["X"] = exc["Y"]
       /\ Live("X") = Live("Y")
       /\ \A n \in 0..MinLen(hist["X"], hist["Y"]) :
            Calls(hist["X"], n) = Calls(hist["Y"], n)
              => Results(hist["X"], n) = Results(hist["Y"], n)
       /\ (Live("X") /\ Calls(hist["X"], Len(hist["X"])) = Calls(hist["Y"], Len(hist["Y"])))
            => StateOf("X") = StateOf("Y")
  /\ \A m, n \in 1..Len(kcalls) :
       kcalls[m].key = kcalls[n].key =>
         /\ kcalls[m].exc = kcalls[n].exc
         /\ kcalls[m].exc = "none" => lists[kcalls[m].ret] = lists[kcalls[n].ret]
  /\ \A m, n \in 1..Len(fcalls) :
       fcalls[m].before = fcalls[n].before =>
         /\ fcalls[m].exc = fcalls[n].exc
         /\ fcalls[m].loc = fcalls[n].loc
         /\ fcalls[m].exc = "none" => bufs[fcalls[m].ret] = bufs[fcalls[n].ret]

C8_Witness ==
  /\ Live("X") /\ Live("Y") /\ ctor["X"] = ctor["Y"] /\ ctor["X"].cls = "RC4A"
  /\ Len(hist["X"]) = MaxCalls /\ Used("X") = MaxBytes /\ hist["X"][1].size >= 1
  /\ Calls(hist["X"], MaxCalls) = Calls(hist["Y"], Len(hist["Y"]))
  /\ Results(hist["X"], MaxCalls) = Results(hist["Y"], MaxCalls)
  /\ StateOf("X") = StateOf("Y") /\ obj["X"].s # obj["Y"].s

(***************************************************************************)
(* C9  Length preservation.  PRGA(size) has returned exactly size bytes,    *)
(* encode_decode and rc4() exactly as many bytes as their input has, the    *)
(* empty input included, and every byte returned lies in 0..255.            *)
(***************************************************************************)
AllBytes(q) == \A n \in 1..Len(q) : IsByte(q[n])

C9_LengthPreserved ==
  /\ \A a \in Slots : \A n \in 1..Len(hist[a]) :
       LET e == hist[a][n]
       IN /\ Len(e.ret) = (IF e.op = "PRGA" THEN e.size ELSE Len(e.content))
          /\ AllBytes(e.ret)
  /\ \A n \in 1..Len(fcalls) :
       fcalls[n].exc = "none" =>
         /\ Len(bufs[fcalls[n].ret].data) = Len(fcalls[n].before.input.data)
         /\ AllBytes(bufs[fcalls[n].ret].data)

C9_Witness ==
  /\ Live("X") /\ Len(hist["X"]) = 2
  /\ hist["X"][1].op = "encode_decode" /\ hist["X"][1].content = <<>>
  /\ hist["X"][1].ret = <<>>
  /\ hist["X"][2].op = "PRGA" /\ hist["X"][2].size = MaxBytes
  /\ Len(hist["X"][2].ret) = MaxBytes

(***************************************************************************)
(* C10  rc4() does not mutate its arguments.  After every call the key,     *)
(* input and IV objects hold what they held before it, whether the input is *)
(* a bytes or a bytearray, and the buffer returned is a bytearray allocated *)
(* by the call, distinct from the three arguments.                          *)
(***************************************************************************)
C10_ArgumentsKept ==
  \A n \in 1..Len(fcalls) :
    LET c == fcalls[n]
    IN /\ bufs[c.key] = c.before.key
       /\ bufs[c.input] = c.before.input
       /\ c.iv # 0 => bufs[c.iv] = c.before.iv
       /\ c.exc = "none" =>
            /\ c.ret > c.nbefore
            /\ c.ret \notin {c.key, c.input, c.iv}
            /\ bufs[c.ret].type = "bytearray"

C10_Witness ==
  /\ Len(fcalls) = 2
  /\ fcalls[1].exc = "none" /\ fcalls[2].exc = "none"
  /\ fcalls[1].before.input.type = "bytearray"
  /\ Len(fcalls[1].before.input.data) = MaxBytes
  /\ fcalls[1].iv # 0
  /\ fcalls[2].input = fcalls[1].ret
  /\ bufs[fcalls[1].ret].data # bufs[fcalls[1].input].data
  /\ bufs[fcalls[1].input] = fcalls[1].before.input
  /\ fcalls[2].ret \notin {fcalls[1].ret, fcalls[1].input}

(***************************************************************************)
(* C11  Constructors and their skip.  RC4A, VMPC, RCPlus and RCDrop take a  *)
(* key and a skip (default 0, RCDrop 768): with a non-empty key the         *)
(* construction succeeds and the first byte the instance returns is byte    *)
(* number skip of the skip-0 keystream.  RC4 takes a key only: RC4(key)     *)
(* succeeds and starts at byte 0, RC4(key, skip) ends in a TypeError and    *)
(* leaves no instance.                                                      *)
(***************************************************************************)
Constructed(a) == ctor[a] # NoCtor /\ Len(ctor[a].key.data) > 0

\* the first byte instance a has returned is byte number SkipOf(a) of the
\* skip-0 keystream of its class (RC4 and RCDrop share theirs)
StartsAtSkip(a) ==
  LET ks == ConcatKS(hist[a])
      base == BaselineKS(IF ctor[a].cls = "RC4" THEN "RCDrop" ELSE ctor[a].cls, ctor[a].key)
  IN Len(ks) >= 1 => ks[1] = base[SkipOf(a) + 1]

\* the claim as stated: all five constructors take a skip
C11_AllAcceptSkip ==
  \A a \in Slots :
    Constructed(a) => (exc[a] = "none" /\ Live(a) /\ StartsAtSkip(a))

C11_SkipConstructors ==
  \A a \in Slots :
    Constructed(a) =>
      IF ctor[a].cls = "RC4" /\ ctor[a].skip.given
      THEN exc[a] = "TypeError" /\ ~Live(a) /\ hist[a] = <<>>
      ELSE exc[a] = "none" /\ Live(a) /\ StartsAtSkip(a)

C11_Witness ==
  /\ Constructed("X") /\ ctor["X"].cls = "RCDrop" /\ ctor["X"].skip = NoSkip
  /\ Constructed("Y") /\ Live("Y")
  /\ Len(hist["X"]) = MaxCalls /\ hist["X"][1].size >= 1
  /\ ConcatKS(hist["X"])[1] = BaselineKS("RCDrop", ctor["X"].key)[769]
  /\ ConcatKS(hist["X"])[1] # BaselineKS("RCDrop", ctor["X"].key)[1]

(***************************************************************************)
(* C12  Empty keys.  A constructor call whose key has length 0 ends in a    *)
(* failure and leaves no instance, no list and no call result; when the     *)
(* call reaches the constructor's body the failure is the ZeroDivisionError *)
(* of i % key_length in RC4.KSA (RC4 called with a skip fails already on    *)
(* its argument list).  RC4.KSA itself fails the same way on an empty bytes *)
(* or text key.  rc4() with an empty key ends in a failure, returns nothing *)
(* and allocates no buffer.                                                 *)
(***************************************************************************)
EmptyKeyCtor(a) == ctor[a] # NoCtor /\ Len(ctor[a].key.data) = 0

C12_EmptyKeyRejected ==
  /\ \A a \in Slots :
       EmptyKeyCtor(a) =>
         /\ exc[a] # "none" /\ ~Live(a) /\ hist[a] = <<>>
         /\ ~(ctor[a].cls = "RC4" /\ ctor[a].skip.given) => exc[a] = "ZeroDivisionError"
  /\ (api = "class" /\ \A a \in Slots : ctor[a] # NoCtor => EmptyKeyCtor(a))
       => lists = <<>>
  /\ (api = "ksa" /\ \A n \in 1..Len(kcalls) : Len(kcalls[n].key.data) = 0)
       => lists = <<>>
  /\ \A n \in 1..Len(kcalls) :
       Len(kcalls[n].key.data) = 0 =>
         kcalls[n].exc = "ZeroDivisionError" /\ kcalls[n].ret = 0
  /\ \A n \in 1..Len(fcalls) :
       LET c == fcalls[n]
       IN Len(c.before.key.data) = 0 =>
            /\ c.exc # "none" /\ c.ret = 0
            /\ c.loc = NoLocals
            /\ Len(bufs) = c.nbefore

C12_Witness ==
  /\ EmptyKeyCtor("X") /\ ctor["X"].cls = "RC4A" /\ ctor["X"].skip = Skip(2)
  /\ EmptyKeyCtor("Y")
  /\ exc["X"] = "ZeroDivisionError" /\ exc["Y"] = "ZeroDivisionError"
  /\ ~Live("X") /\ ~Live("Y") /\ lists = <<>>

(***************************************************************************)
(* C13  Type errors of rc4().  When the key is not a str, bytes or          *)
(* bytearray, or the input or the IV is not a bytes or bytearray, the call  *)
(* raises TypeError: it returns nothing, allocates no buffer, binds none of *)
(* s, i, j, skip and leaves its arguments as they were.  The message names  *)
(* the first offender in the order key, input, IV, and an empty key is      *)
(* looked at only when all three types pass.  A str key passes, a str input *)
(* does not.                                                                *)
(***************************************************************************)
BadKey(c) == c.before.key.type \notin {"str", "bytes", "bytearray"}
BadInput(c) == c.before.input.type \notin {"bytes", "bytearray"}
BadIV(c) == c.before.iv.type \notin {"bytes", "bytearray"}

C13_TypeErrorsFailFast ==
  \A n \in 1..Len(fcalls) :
    LET c == fcalls[n]
    IN /\ (BadKey(c) \/ BadInput(c) \/ BadIV(c)) =>
            /\ c.exc = "TypeError" /\ c.ret = 0 /\ c.loc = NoLocals
            /\ Len(bufs) = c.nbefore
            /\ ArgValues(bufs, c.key, c.input, c.iv) = c.before
       /\ BadKey(c) => c.msg = "key should be bytes"
       /\ (~BadKey(c) /\ BadInput(c)) => c.msg = "input should be bytes"
       /\ (~BadKey(c) /\ ~BadInput(c) /\ BadIV(c)) => c.msg = "IV should be bytes"
       /\ c.exc = "TypeError" => (BadKey(c) \/ BadInput(c) \/ BadIV(c))
       /\ c.exc = "AssertionError" => ~(BadKey(c) \/ BadInput(c) \/ BadIV(c))
       /\ c.before.input.type = "str" => c.exc = "TypeError"

C13_Witness ==
  /\ Len(fcalls) = MaxFnCalls
  /\ BadKey(fcalls[1]) /\ BadInput(fcalls[1]) /\ BadIV(fcalls[1])
  /\ fcalls[1].before.key = PyList(<<1, 200>>)
  /\ fcalls[1].exc = "TypeError" /\ fcalls[1].msg = "key should be bytes"
  /\ fcalls[2].exc = "TypeError" /\ Len(bufs) = 3

\* a text key with well-typed input and IV is accepted; an empty key with an
\* ill-typed input is a type error, not a failed assertion
C13_WitnessOrder ==
  /\ Len(fcalls) = 1
  /\ Len(fcalls[1].before.key.data) = 0 /\ ~BadKey(fcalls[1])
  /\ BadInput(fcalls[1]) /\ fcalls[1].msg = "input should be bytes"

(***************************************************************************)
(* C14  Key truncation.  For a key of more than 256 bytes or characters,    *)
(* RC4.KSA(key) returns the list it returns for key[0:256], and             *)
(* rc4(key, input, iv) ends as rc4(key[0:256], input, iv) does: the same    *)
(* output bytes, the same final S-box and counters, the same skip.          *)
(***************************************************************************)
\* key[0:256], of the type of key
Truncated(key) ==
  [key EXCEPT !.data = IF Len(@) <= 256 THEN @ ELSE SubSeq(@, 1, 256)]

IsLong(key) == Len(key.data) > 256

\* the contents of the list RC4.KSA(key) returns
KSAOf(key) == LET r == KSA(<<>>, key) IN r.h[r.ref]

\* rc4 on fresh objects holding the arguments of call c, the key cut to 256
Rc4OnTruncated(c) ==
  IF c.iv = 0
  THEN Rc4(<<Truncated(c.before.key), c.before.input>>, 1, 2, 0)
  ELSE Rc4(<<Truncated(c.before.key), c.before.input, c.before.iv>>, 1, 2, 3)

C14_KeyTruncation ==
  /\ \A n \in 1..Len(kcalls) :
       IsLong(kcalls[n].key) =>
         /\ kcalls[n].exc = "none"
         /\ lists[kcalls[n].ret] = KSAOf(Truncated(kcalls[n].key))
  /\ \A n \in 1..Len(fcalls) :
       LET c == fcalls[n]
       IN IsLong(c.before.key) =>
            \E r \in {Rc4OnTruncated(c)} :
               /\ c.exc = r.exc /\ c.msg = r.msg /\ c.loc = r.loc
               /\ c.exc = "none" => bufs[c.ret].data = r.h[r.ret].data

C14_Witness ==
  /\ Len(kcalls) = 2
  /\ kcalls[1].key = PyBytes(LongBytes) /\ kcalls[2].key = PyStr(LongText)
  /\ lists[1] = KSAOf(PyBytes(SubSeq(LongBytes, 1, 256)))
  /\ lists[2] = KSAOf(PyStr(SubSeq(LongText, 1, 256)))
  /\ lists[1] # lists[2]
  /\ LongBytes[257] # LongBytes[1]

(***************************************************************************)
(* C15  Streaming.  However the bytes an instance has produced were split   *)
(* over calls of PRGA and encode_decode, they are, in order, the bytes one  *)
(* PRGA call of the same total size returns on a fresh instance constructed *)
(* alike, and the instance is in the state that call leaves (lists, i, j,   *)
(* and for RC4A j2 and the phase flag).  A later encode_decode therefore    *)
(* uses the bytes from where the earlier calls stopped: passing the result  *)
(* of encode_decode through the same instance again returns the original    *)
(* only if the two stretches of keystream happen to be equal.               *)
(***************************************************************************)
\* an instance by value, as StateOf, from a heap and an instance record
ValueOf(h, o) ==
  [cls |-> o.cls, i |-> o.i, j |-> o.j, j2 |-> o.j2, first_op |-> o.first_op,
   s |-> h[o.s], S2 |-> IF o.S2 = 0 THEN Range256 ELSE h[o.S2]]

\* cls(key[, skip]).PRGA(n) on a fresh instance, for every constructor call of
\* the client that succeeds and every n up to MaxBytes: the bytes and the state
FreshRuns ==
  {LET r == New(<<>>, x[1].cls, x[1].key, x[1].skip)
       f == PRGA(r.h, r.o, x[2])
   IN [ctor |-> x[1], n |-> x[2], ks |-> f.ks, st |-> ValueOf(f.h, f.o)]
   : x \in {c \in XCtorArgs : Len(c.key.data) > 0 /\ ~(c.cls = "RC4" /\ c.skip.given)}
             \X (0..MaxBytes)}
FreshRun(c, n) == CHOOSE e \in FreshRuns : e.ctor = c /\ e.n = n

\* the keystream of the calls before the k-th of a history, in bytes
RECURSIVE UsedBefore(_, _)
UsedBefore(h, k) == IF k <= 1 THEN 0 ELSE h[k - 1].size + UsedBefore(h, k - 1)

\* the calls made on a so far add up to one call on a fresh instance
Chunked(a) ==
  \E e \in {FreshRun(ctor[a], Used(a))} :
     /\ ConcatKS(hist[a]) = e.ks
     /\ StateOf(a) = e.st
     /\ \A k \in 1..Len(hist[a]) :
          LET c == hist[a][k]
              m == UsedBefore(hist[a], k)
          IN /\ c.ks = SubSeq(e.ks, m + 1, m + c.size)
             /\ c.op = "encode_decode" =>
                  c.ret = [n \in 1..c.size |-> BitXor(c.content[n], e.ks[m + n])]

\* the k-th call on a passed the result of the encode_decode before it through
\* encode_decode again
ReappliedAt(a, k) ==
  /\ k >= 2 /\ k <= Len(hist[a])
  /\ hist[a][k].op = "encode_decode" /\ hist[a][k - 1].op = "encode_decode"
  /\ hist[a][k].size >= 1 /\ hist[a][k].content = hist[a][k - 1].ret

\* the claim as stated: applying encode_decode again never gives the original
C15_ReapplyNeverUndoes ==
  \A a \in Slots :
    Live(a) =>
      /\ Chunked(a)
      /\ \A k \in 1..Len(hist[a]) :
           ReappliedAt(a, k) => hist[a][k].ret # hist[a][k - 1].content

C15_Streaming ==
  \A a \in Slots :
    Live(a) =>
      /\ Chunked(a)
      /\ \A k \in 1..Len(hist[a]) :
           ReappliedAt(a, k) =>
             ((hist[a][k].ret = hist[a][k - 1].content)
                <=> (hist[a][k].ks = hist[a][k - 1].ks))

C15_Witness ==
  /\ Live("X") /\ ctor["X"].cls = "RC4A" /\ ctor["X"].skip = Skip(1)
  /\ Len(hist["X"]) = 2 /\ ReappliedAt("X", 2) /\ hist["X"][1].size = 1
  /\ hist["X"][2].ret # hist["X"][1].content
  /\ hist["X"][2].ks = SubSeq(FreshRun(ctor["X"], 2).ks, 2, 2)
  /\ hist["X"][2].ks # hist["X"][1].ks
  /\ ~obj["X"].first_op /\ obj["X"].i = 2

\* RC4A with skip 0 returns its keystream in pairs of equal bytes here, so the
\* second application gives the original back
C15_UndoneByRC4A ==
  /\ Live("X") /\ ctor["X"].cls = "RC4A" /\ ctor["X"].skip = Skip(0)
  /\ Len(hist["X"]) = 2 /\ ReappliedAt("X", 2) /\ hist["X"][1].size = 1
  /\ hist["X"][2].ret = hist["X"][1].content

(***************************************************************************)
(* C16  RC4A alternation.  The phase flag of an RC4A instance is "first"    *)
(* exactly when the steps run on it since its KSA - those of the skip at    *)
(* construction and those of all calls - are even in number, and i is half  *)
(* that number, rounded up, modulo 256.  One more step taken in the first   *)
(* phase advances i, adds S[i] to j, swaps S[i] and S[j], returns           *)
(* S2[(S[i] + S[j]) mod 256] and keeps S2 and j2; taken in the second phase *)
(* it keeps i, j and S, adds S2[i] to j2, swaps S2[i] and S2[j2] and        *)
(* returns S[(S2[i] + S2[j2]) mod 256].  Either way the flag flips.         *)
(***************************************************************************)
\* list l with the values at positions a and b exchanged
Swapped(l, a, b) ==
  [n \in 0..255 |-> IF n = a THEN l[b] ELSE IF n = b THEN l[a] ELSE l[n]]

StepsRun(a) == SkipOf(a) + Used(a)

\* what a.PRGA(1) does from the current state of a
AlternatesFrom(a) ==
  \E f \in {PRGA(lists, obj[a], 1)} :
  LET o == obj[a]
      p == f.o
      S == lists[o.s]
      T == lists[o.S2]
  IN /\ Len(f.ks) = 1
     /\ p.first_op = ~o.first_op
     /\ p.s = o.s /\ p.S2 = o.S2 /\ o.s # o.S2
     /\ \A r \in 1..Len(lists) : r \notin {o.s, o.S2} => f.h[r] = lists[r]
     /\ o.first_op =>
          /\ p.i = (o.i + 1) % 256
          /\ p.j = (o.j + S[p.i]) % 256
          /\ f.h[o.s] = Swapped(S, p.i, p.j)
          /\ f.h[o.S2] = T /\ p.j2 = o.j2
          /\ f.ks[1] = T[(f.h[o.s][p.i] + f.h[o.s][p.j]) % 256]
     /\ ~o.first_op =>
          /\ p.i = o.i /\ p.j = o.j /\ f.h[o.s] = S
          /\ p.j2 = (o.j2 + T[o.i]) % 256
          /\ f.h[o.S2] = Swapped(T, o.i, p.j2)
          /\ f.ks[1] = S[(f.h[o.S2][o.i] + f.h[o.S2][p.j2]) % 256]

C16_Alternation ==
  \A a \in Slots :
    (Live(a) /\ obj[a].cls = "RC4A") =>
      /\ obj[a].first_op = (StepsRun(a) % 2 = 0)
      /\ obj[a].i = ((StepsRun(a) + 1) \div 2) % 256
      /\ AlternatesFrom(a)

C16_Witness ==
  /\ Live("X") /\ obj["X"].cls = "RC4A" /\ ctor["X"].skip = Skip(573)
  /\ Len(hist["X"]) = 2 /\ hist["X"][1].size = 1 /\ hist["X"][2].size = 1
  /\ obj["X"].i = 32 /\ ~obj["X"].first_op
  /\ obj["X"].j # obj["X"].j2
  /\ Live("Y") /\ Len(hist["Y"]) = 1 /\ obj["Y"].first_op /\ obj["Y"].i = 31

(***************************************************************************)
(* C17  Swaps only.  One more PRGA step from any state of an RC4, RCDrop,   *)
(* VMPC or RCPlus instance leaves its list as it was with the values at two *)
(* positions exchanged - the new i and the new j, for VMPC the i before the *)
(* increment and the new j - and so unchanged when the two positions are    *)
(* the same; no other list changes.  The same holds of one more pass of the *)
(* skip loop of rc4() from the state its skip has reached, and of one more  *)
(* pass of its XOR loop from the state a call has reached.                  *)
(***************************************************************************)
\* the positions the next step of instance a uses: [i, j]
StepPositions(a) ==
  LET o == obj[a]
      S == lists[o.s]
  IN IF o.cls = "VMPC"
     THEN [i |-> o.i, j |-> S[(o.j + S[o.i]) % 256]]
     ELSE LET i == (o.i + 1) % 256 IN [i |-> i, j |-> (o.j + S[i]) % 256]

SwapsOnly(a) ==
  \E f \in {PRGA(lists, obj[a], 1)}, q \in {StepPositions(a)} :
  LET o == obj[a]
  IN /\ f.o.s = o.s
     /\ f.o.j = q.j
     /\ f.o.i = (IF o.cls = "VMPC" THEN (q.i + 1) % 256 ELSE q.i)
     /\ f.h[o.s] = Swapped(lists[o.s], q.i, q.j)
     /\ q.i = q.j => f.h[o.s] = lists[o.s]
     /\ \A r \in 1..Len(lists) : r # o.s => f.h[r] = lists[r]

\* one more pass of a loop of rc4() from the locals s, i, j of call c
Rc4SwapsOnly(c) ==
  \E g \in {Rc4SkipStep([s |-> c.loc.s, i |-> c.loc.i, j |-> c.loc.j])},
     x \in {Rc4XorStep([h |-> <<PyByteArray(<<0>>)>>, out |-> 1,
                        s |-> c.loc.s, i |-> c.loc.i, j |-> c.loc.j], 0)} :
  LET i == (c.loc.i + 1) % 256
      j == (c.loc.j + c.loc.s[i]) % 256
  IN /\ Len(c.before.input.data) = 0 =>
          (g.i = i /\ g.j = j /\ g.s = Swapped(c.loc.s, i, j))
     /\ x.i = i /\ x.j = j /\ x.s = Swapped(c.loc.s, i, j)
     /\ i = j => (x.s = c.loc.s /\ g.s = c.loc.s)

C17_SwapsOnly ==
  /\ \A a \in Slots : (Live(a) /\ obj[a].cls # "RC4A") => SwapsOnly(a)
  /\ \A n \in 1..Len(fcalls) : fcalls[n].exc = "none" => Rc4SwapsOnly(fcalls[n])

C17_Witness ==
  /\ Live("X") /\ obj["X"].cls = "RCPlus" /\ ctor["X"].skip = Skip(573)
  /\ Used("X") = 1
  /\ StepPositions("X").i = StepPositions("X").j
  /\ PRGA(lists, obj["X"], 1).h = lists
  /\ Live("Y") /\ hist["Y"] = <<>>
  /\ StepPositions("Y").i # StepPositions("Y").j
  /\ SwapsOnly("Y")
  /\ PRGA(lists, obj["Y"], 1).h[obj["Y"].s] # lists[obj["Y"].s]

(***************************************************************************)
(* C18  The values of an RCPlus step.  In one more step from any state of   *)
(* an RCPlus instance, what is stored, returned or used as an index - the   *)
(* counters i and j, the values a and b, the indices v, w, c and c XOR      *)
(* 0xAA, and the output k - lies in 0..255.  The terms under the masks do   *)
(* not: i << 5 and j << 5 are 32 * i and 32 * j, up to 8160, a + b and      *)
(* j + b go up to 510 and S[v] + S[j] + S[w] up to 765; each is cut to 8    *)
(* bits by the & 0xFF or % 256 that follows it.                             *)
(***************************************************************************)
\* the values of the next step of instance a
NextTerms(a) == RCPlusTerms(lists, obj[a])

RCPlusLive(a) == Live(a) /\ obj[a].cls = "RCPlus"

\* the claim as stated: no intermediate value leaves 0..255
C18_AllWithin8Bits ==
  \A a \in Slots :
    RCPlusLive(a) =>
      LET t == NextTerms(a)
      IN \A x \in {t.shl_i, t.shl_j, t.sum_ab, t.sum_jb, t.sum_c,
                   t.v, t.w, t.cx, t.i, t.j, t.k} : IsByte(x)

C18_MaskedValuesAreBytes ==
  \A a \in Slots :
    RCPlusLive(a) =>
      \E t \in {NextTerms(a)} :
      LET S == t.h[obj[a].s]
      IN /\ \A x \in {t.i, t.j, t.a, t.b, t.v, t.w, t.c, t.cx, t.k} : IsByte(x)
         /\ t.shl_i = 32 * t.i /\ t.shl_j = 32 * t.j
         /\ t.sum_ab = t.a + t.b /\ t.sum_jb = t.j + t.b
         /\ t.sum_c = S[t.v] + S[t.j] + S[t.w]
         /\ t.shl_i <= 8160 /\ t.shl_j <= 8160
         /\ t.sum_ab <= 510 /\ t.sum_jb <= 510 /\ t.sum_c <= 765 /\ t.sum_k <= 510
         /\ t.c = t.sum_c % 256
         /\ t.v = BitXor(t.shl_i % 256, t.j \div 8)
         /\ t.w = BitXor(t.shl_j % 256, t.i \div 8)
         /\ PRGA(lists, obj[a], 1).ks = <<t.k>>

C18_Witness ==
  /\ RCPlusLive("X") /\ ctor["X"].skip = Skip(573) /\ Used("X") = MaxBytes
  /\ NextTerms("X").i = (573 + MaxBytes + 1) % 256
  /\ NextTerms("X").shl_i > 255
  /\ IsByte(NextTerms("X").v) /\ IsByte(NextTerms("X").k)
  /\ RCPlusLive("Y") /\ hist["Y"] = <<>>
  /\ NextTerms("Y").sum_c > 255 /\ IsByte(NextTerms("Y").c)

(***************************************************************************)
(* C19  The two lists of RC4A.  An RC4A instance on which no step has run   *)
(* (skip 0, nothing drawn) has S2 equal to S entry for entry, i = j = j2 =  *)
(* 0 and the phase "first", and S and S2 are two lists, not one list under  *)
(* two names.  Its first step swaps within S and leaves S2 as it was; S and *)
(* S2 differ after it exactly when the swap exchanged two different         *)
(* positions, that is unless key scheduling left S[1] = 1.                  *)
(***************************************************************************)
FreshRC4A(a) == Live(a) /\ obj[a].cls = "RC4A" /\ StepsRun(a) = 0
OneStepRC4A(a) ==
  Live(a) /\ obj[a].cls = "RC4A" /\ SkipOf(a) = 0 /\ Used(a) = 1

\* the list RC4A(key) has as S and as S2 when constructed
BoxAtStart(key) == FreshRun([cls |-> "RC4A", key |-> key, skip |-> NoSkip], 0).st.s

KeyedAlike(a) ==
  LET o == obj[a]
  IN /\ lists[o.s] = lists[o.S2]
     /\ o.i = 0 /\ o.j = 0 /\ o.j2 = 0 /\ o.first_op
     /\ o.s # o.S2
     /\ SetItem(lists, o.s, 0, 256)[o.S2] = lists[o.S2]

\* the claim as stated: the first step always makes S and S2 differ
C19_FirstSwapSeparates ==
  \A a \in Slots :
    /\ FreshRC4A(a) => KeyedAlike(a)
    /\ OneStepRC4A(a) =>
         /\ lists[obj[a].S2] = BoxAtStart(ctor[a].key)
         /\ lists[obj[a].s] # lists[obj[a].S2]

C19_SeparateLists ==
  \A a \in Slots :
    /\ FreshRC4A(a) => KeyedAlike(a)
    /\ OneStepRC4A(a) =>
         /\ lists[obj[a].S2] = BoxAtStart(ctor[a].key)
         /\ lists[obj[a].s] = Swapped(BoxAtStart(ctor[a].key), obj[a].i, obj[a].j)
         /\ obj[a].i = 1 /\ obj[a].j = BoxAtStart(ctor[a].key)[1]
         /\ (lists[obj[a].s] # lists[obj[a].S2]) <=> (BoxAtStart(ctor[a].key)[1] # 1)

C19_Witness ==
  /\ OneStepRC4A("X") /\ ctor["X"].key = PyStr(<<107, 101, 121>>)
  /\ lists[obj["X"].s] # lists[obj["X"].S2]
  /\ lists[obj["X"].S2] = BoxAtStart(ctor["X"].key)
  /\ FreshRC4A("Y") /\ KeyedAlike("Y")
  /\ lists[obj["Y"].s] = lists[obj["X"].S2]

\* with the key 00 03 the first step swaps S[1] with itself
C19_VoidSwap ==
  /\ OneStepRC4A("X") /\ ctor["X"].key = VoidSwapKey
  /\ obj["X"].i = 1 /\ obj["X"].j = 1 /\ ~obj["X"].first_op
  /\ lists[obj["X"].s] = lists[obj["X"].S2]

====
